---- MODULE Spec2Model ----
(***************************************************************************)
(* Model of the Yellowpages scraper: the crawl orchestrator (runner.py,    *)
(* run_scraper), the pagination controller (yp_parser.py,                  *)
(* fetch_businesses), fetch-with-retry (_get_with_retries), the page       *)
(* extractor (_extract_listings), the listing parser (_parse_listing) and  *)
(* the field extractors (utils_formatting.py).                             *)
(*                                                                         *)
(* Python values are tagged tuples <<type, payload>>, so that a None, a    *)
(* str, a list and a dict can be told apart.  A str is a sequence of       *)
(* characters.  What BeautifulSoup finds in a listing block is a field of  *)
(* the fragment: <<"absent">> when find() returns None, <<"tag", x>>       *)
(* when it returns a tag whose text (or attribute) is x.                   *)
(***************************************************************************)
EXTENDS Integers, Sequences, FiniteSets, TLC

\* ------------------------------------------------------------------ bounds

\* largest settings.max_pages_per_search explored
MaxPages == 3
\* largest settings.retry_attempts explored
MaxRetry == 2
\* largest small max_results_per_keyword explored (next to one above a page)
MaxSmallResults == 2
\* longest keyword list explored
MaxKeywords == 2
\* longest listing sequence of the enumerated result pages
MaxFrags == 2
\* largest first_page_records _estimate_total_pages is applied to by itself
MaxFirstPageRecords == 32
\* largest max_results _estimate_total_pages is applied to by itself
MaxEstimateResults == 65
\* largest settings.retry_attempts explored in a search of one page
MaxRetryOnePage == 3

\* ------------------------------------------------------------ python values

PyNone == <<"NoneType">>
PyStr(s) == <<"str", s>>
PyList(l) == <<"list", l>>
PyDict(d) == <<"dict", d>>
PyNum(n) == <<"float", n>>

PyType(v) == v[1]

\* truthiness of a python value (bool(v))
Truthy(v) ==
  CASE PyType(v) = "NoneType" -> FALSE
    [] PyType(v) = "str" -> v[2] # <<>>
    [] PyType(v) = "list" -> v[2] # <<>>
    [] PyType(v) = "dict" -> v[2] # {}
    [] OTHER -> TRUE

\* what find() returns
Absent == <<"absent">>
Tag(x) == <<"tag", x>>
Found(t) == t[1] = "tag"

\* a or b on find() results
OrElse(a, b) == IF Found(a) THEN a ELSE b

\* ------------------------------------------------------------------ text

IsSpace(c) == c \in {" ", "\n"}

RECURSIVE DropSpaces(_)
DropSpaces(s) ==
  IF s # <<>> /\ IsSpace(Head(s)) THEN DropSpaces(Tail(s)) ELSE s

\* re.sub(r"\s+", " ", value)
RECURSIVE CollapseSpaces(_)
CollapseSpaces(s) ==
  IF s = <<>> THEN <<>>
  ELSE IF IsSpace(Head(s)) THEN <<" ">> \o CollapseSpaces(DropSpaces(Tail(s)))
  ELSE <<Head(s)>> \o CollapseSpaces(Tail(s))

RECURSIVE Reverse(_)
Reverse(s) == IF s = <<>> THEN <<>> ELSE Reverse(Tail(s)) \o <<Head(s)>>

\* str.strip()
Strip(s) == Reverse(DropSpaces(Reverse(DropSpaces(s))))

\* clean_text on the characters of a str
clean_chars(s) == Strip(CollapseSpaces(s))

\* clean_text(value)
clean_text(value) ==
  IF value = PyNone THEN PyStr(<<>>) ELSE PyStr(clean_chars(value[2]))

\* text.replace(tok, "") where tok is one token of the text
RemoveToken(s, tok) == SelectSeq(s, LAMBDA c : c # tok)

\* sep.join(parts)
RECURSIVE Join(_, _)
Join(parts, sep) ==
  IF parts = <<>> THEN <<>>
  ELSE IF Len(parts) = 1 THEN parts[1]
  ELSE parts[1] \o sep \o Join(Tail(parts), sep)

\* position of the first c in s, 0 when there is none
RECURSIVE IndexOf(_, _)
IndexOf(s, c) ==
  IF s = <<>> THEN 0
  ELSE IF Head(s) = c THEN 1
  ELSE LET r == IndexOf(Tail(s), c) IN IF r = 0 THEN 0 ELSE r + 1

\* list(dict.fromkeys(xs)): first occurrences, in order
RECURSIVE DedupeSeq(_, _)
DedupeSeq(xs, seen) ==
  IF xs = <<>> THEN <<>>
  ELSE IF Head(xs) \in seen THEN DedupeSeq(Tail(xs), seen)
  ELSE <<Head(xs)>> \o DedupeSeq(Tail(xs), seen \cup {Head(xs)})

\* code point order of the characters used
CharRank(c) ==
  CASE c = "\n" -> 0
    [] c = " " -> 1
    [] c = ":" -> 2
    [] c = "A" -> 3
    [] c = "a" -> 4
    [] c = "b" -> 5
    [] OTHER -> 6

\* s < t for python strings
RECURSIVE StrLess(_, _)
StrLess(s, t) ==
  IF t = <<>> THEN FALSE
  ELSE IF s = <<>> THEN TRUE
  ELSE IF Head(s) = Head(t) THEN StrLess(Tail(s), Tail(t))
  ELSE CharRank(Head(s)) < CharRank(Head(t))

\* sorted(S) for a set of strings
RECURSIVE SortedStrings(_)
SortedStrings(S) ==
  IF S = {} THEN <<>>
  ELSE LET m == CHOOSE x \in S : \A y \in S \ {x} : StrLess(x, y)
       IN <<m>> \o SortedStrings(S \ {m})

Range(s) == {s[i] : i \in 1..Len(s)}

\* --------------------------------------------------------- field extractors

\* extract_phone(listing_soup)
extract_phone(f) ==
  LET phone_tag == OrElse(f.div_phones, f.a_tel)
  IN IF Found(phone_tag)
     THEN clean_text(PyStr(RemoveToken(phone_tag[2], "tel:")))
     ELSE IF Found(f.re_phone) THEN clean_text(PyStr(f.re_phone[2]))
     ELSE PyStr(<<>>)

\* extract_address(listing_soup)
extract_address(f) ==
  LET parts == (IF Found(f.div_street_address)
                THEN <<clean_chars(f.div_street_address[2])>> ELSE <<>>)
               \o (IF Found(f.div_locality)
                   THEN <<clean_chars(f.div_locality[2])>> ELSE <<>>)
  IN IF parts # <<>> THEN PyStr(Join(parts, <<",", " ">>))
     ELSE IF Found(f.p_adr) THEN clean_text(PyStr(f.p_adr[2]))
     ELSE PyStr(<<>>)

\* extract_email_from_text(text): the first match of the e-mail pattern
extract_email_from_text(f) ==
  IF Found(f.re_email) THEN PyStr(f.re_email[2]) ELSE PyStr(<<>>)

\* extract_ratings(listing_soup)
extract_ratings(f) ==
  IF Found(f.aria_star_rating) THEN PyDict({<<"yellowpages", f.aria_star_rating[2]>>})
  ELSE IF Found(f.re_star) THEN PyDict({<<"yellowpages", f.re_star[2]>>})
  ELSE PyDict({})

\* the cleaned, non-empty texts of a sequence of tags
CleanNonEmpty(texts) ==
  LET cleaned == [i \in 1..Len(texts) |-> clean_chars(texts[i])]
  IN SelectSeq(cleaned, LAMBDA v : v # <<>>)

\* extract_categories(listing_soup)
extract_categories(f) ==
  LET primary == IF Found(f.div_categories)
                 THEN CleanNonEmpty(f.div_categories[2]) ELSE <<>>
      categories == IF primary # <<>> THEN primary
                    ELSE CleanNonEmpty(f.category_tags)
  IN PyList(SortedStrings(Range(categories)))

\* one <li> of the hours block: text.split(":", 1)
HoursEntry(text) ==
  LET k == IndexOf(text, ":")
  IN IF k > 0
     THEN [day |-> PyStr(clean_chars(SubSeq(text, 1, k - 1))),
           time |-> PyStr(clean_chars(SubSeq(text, k + 1, Len(text))))]
     ELSE [day |-> PyStr(<<>>), time |-> PyStr(text)]

\* extract_hours(listing_soup)
extract_hours(f) ==
  IF ~Found(f.div_hours) THEN PyList(<<>>)
  ELSE LET texts == CleanNonEmpty(f.div_hours[2])
       IN PyList([i \in 1..Len(texts) |-> HoursEntry(texts[i])])

\* img.get("src") or img.get("data-src")
ImgSrc(img) ==
  IF Found(img.src) /\ img.src[2] # <<>> THEN img.src
  ELSE img.data_src

\* extract_gallery_urls(listing_soup)
extract_gallery_urls(f) ==
  LET srcs == [i \in 1..Len(f.imgs) |-> ImgSrc(f.imgs[i])]
      kept == SelectSeq(srcs, LAMBDA s :
                /\ Found(s) /\ s[2] # <<>>
                /\ ("ypcdn.com" \in Range(s[2]) \/ "yellowpages" \in Range(s[2])))
      urls == [i \in 1..Len(kept) |-> kept[i][2]]
  IN PyList(DedupeSeq(urls, {}))

\* the dictionary extract_reviews builds of one review block
ReviewOf(rb) ==
  LET date == OrElse(rb.span_date, rb.span_review_date)
      content == IF Found(rb.p) THEN rb.p[2] ELSE rb.text
  IN [reviewer |-> IF Found(rb.span_reviewer)
                   THEN clean_text(PyStr(rb.span_reviewer[2])) ELSE PyStr(<<>>),
      reviewDate |-> IF Found(date) THEN clean_text(PyStr(date[2])) ELSE PyStr(<<>>),
      reviewRating |-> IF Found(rb.aria_star_rating)
                       THEN PyNum(rb.aria_star_rating[2]) ELSE PyNum(0),
      reviewContent |-> clean_text(PyStr(content))]

\* the de-duplication loop of extract_reviews
RECURSIVE DedupeReviews(_, _)
DedupeReviews(reviews, seen_keys) ==
  IF reviews = <<>> THEN <<>>
  ELSE LET r == Head(reviews)
           key == <<r.reviewer, r.reviewContent>>
       IN IF key \in seen_keys THEN DedupeReviews(Tail(reviews), seen_keys)
          ELSE <<r>> \o DedupeReviews(Tail(reviews), seen_keys \cup {key})

\* extract_reviews(listing_soup)
extract_reviews(f) ==
  PyList(DedupeReviews([i \in 1..Len(f.review_blocks) |-> ReviewOf(f.review_blocks[i])], {}))

\* extract_general_info(listing_soup)
extract_general_info(f) ==
  LET desc_tag == OrElse(f.p_body_text, f.div_general_info)
      next_p == IF Found(f.h2) THEN f.h2_next_p
                ELSE IF Found(f.h3) THEN f.h3_next_p ELSE Absent
  IN IF Found(desc_tag) THEN clean_text(PyStr(desc_tag[2]))
     ELSE IF Found(next_p) THEN clean_text(PyStr(next_p[2]))
     ELSE PyStr(<<>>)

\* ------------------------------------------------------------ listing parser

\* the outcome of a call: a value returned or an exception raised
Return(v) == <<"return", v>>
Raise == <<"raise">>
Raised(r) == r[1] = "raise"

\* website_tag.get("href") if website_tag else ""
website_href(website_tag) ==
  IF Found(website_tag)
  THEN (IF Found(website_tag[2]) THEN PyStr(website_tag[2][2]) ELSE PyNone)
  ELSE PyStr(<<>>)

\* _parse_listing(listing_soup); raises on a block whose markup breaks a lookup
_parse_listing(f) ==
  IF f.malformed THEN Raise
  ELSE
    LET name_tag == OrElse(f.a_business_name, OrElse(f.a_itemprop_name, f.h2))
        website_tag == OrElse(f.a_track_visit_website, f.a_website_string)
    IN Return([name |-> IF Found(name_tag) THEN clean_text(PyStr(name_tag[2]))
                        ELSE PyStr(<<>>),
               address |-> extract_address(f),
               phone |-> extract_phone(f),
               email |-> extract_email_from_text(f),
               website |-> website_href(website_tag),
               ratings |-> extract_ratings(f),
               categories |-> extract_categories(f),
               hours |-> extract_hours(f),
               gallery |-> extract_gallery_urls(f),
               ypReviews |-> extract_reviews(f),
               generalInfo |-> extract_general_info(f)])

\* ------------------------------------------------------------ page extractor

\* mutant: the presence of the key is tested, not its value
HasNameKey(record) == "name" \in DOMAIN record

\* record.get("name")
HasName(record) == Truthy(record.name)

\* the loop of _extract_listings over the listing blocks, in document order
RECURSIVE ExtractLoop(_, _)
ExtractLoop(listing_blocks, records) ==
  IF listing_blocks = <<>> THEN records
  ELSE LET r == _parse_listing(Head(listing_blocks))
       IN IF Raised(r) THEN ExtractLoop(Tail(listing_blocks), records)
          ELSE IF HasName(r[2])
               THEN ExtractLoop(Tail(listing_blocks), Append(records, r[2]))
               ELSE ExtractLoop(Tail(listing_blocks), records)

\* what the server sends with a 200: a page BeautifulSoup parses into its
\* listing blocks, or markup the parser rejects
Html(blocks) == <<"html", blocks>>
RejectedMarkup == <<"rejected">>

\* _extract_listings(page_html)
_extract_listings(page_html) ==
  IF page_html = RejectedMarkup THEN Raise
  ELSE Return(ExtractLoop(page_html[2], <<>>))

\* ------------------------------------------------- listing blocks and pages

\* a listing block in which no lookup finds anything
EmptyFragment ==
  [malformed |-> FALSE,
   a_business_name |-> Absent, a_itemprop_name |-> Absent,
   h2 |-> Absent, h2_next_p |-> Absent, h3 |-> Absent, h3_next_p |-> Absent,
   a_track_visit_website |-> Absent, a_website_string |-> Absent,
   div_street_address |-> Absent, div_locality |-> Absent, p_adr |-> Absent,
   div_phones |-> Absent, a_tel |-> Absent,
   re_phone |-> Absent, re_email |-> Absent, re_star |-> Absent,
   aria_star_rating |-> Absent,
   div_categories |-> Absent, category_tags |-> <<>>,
   div_hours |-> Absent, imgs |-> <<>>, review_blocks |-> <<>>,
   p_body_text |-> Absent, div_general_info |-> Absent]

\* <a class="business-name"> a </a> with a phones block
GoodA ==
  [EmptyFragment EXCEPT !.a_business_name = Tag(<<" ", "a", "\n">>),
                        !.div_phones = Tag(<<"5", "5", "5">>)]

\* the name in the <h2> only, a website link with its target
GoodB ==
  [EmptyFragment EXCEPT !.h2 = Tag(<<"b", " ", "\n", "b">>),
                        !.h2_next_p = Tag(<<"a", " ">>),
                        !.a_website_string = Tag(Tag(<<"b">>))]

\* a name tag holding white space only
BlankName ==
  [EmptyFragment EXCEPT !.a_itemprop_name = Tag(<<" ", "\n">>),
                        !.h2 = Tag(<<"b">>)]

\* no name tag at all
NoName == [EmptyFragment EXCEPT !.a_tel = Tag(<<"tel:", "5">>)]

\* markup on which the listing parser throws
Malformed == [GoodA EXCEPT !.malformed = TRUE]

\* <a class="track-visit-website">Website</a>: the anchor has no href
NoHref ==
  [EmptyFragment EXCEPT !.a_business_name = Tag(<<"A">>),
                        !.a_track_visit_website = Tag(Absent)]

\* a listing with every kind of markup
Rich ==
  [EmptyFragment EXCEPT
     !.a_itemprop_name = Tag(<<"a", "b">>),
     !.a_track_visit_website = Tag(Tag(<<"a">>)),
     !.div_street_address = Tag(<<"a", " ", " ">>),
     !.div_locality = Tag(<<"b">>),
     !.a_tel = Tag(<<"tel:", "5", " ", "5">>),
     !.re_email = Tag(<<"a", "@", "b">>),
     !.re_star = Tag(<<"4">>),
     !.div_categories = Tag(<< <<"b">>, <<" ">>, <<"a">>, <<"b", " ">>, <<"A">> >>),
     !.div_hours = Tag(<< <<"a", ":", "9", ":", "5">>, <<"b">>, <<"\n">> >>),
     !.imgs = << [src |-> Tag(<<"ypcdn.com", "a">>), data_src |-> Absent],
                 [src |-> Absent, data_src |-> Tag(<<"yellowpages", "b">>)],
                 [src |-> Tag(<<"a">>), data_src |-> Absent],
                 [src |-> Tag(<<"ypcdn.com", "a">>), data_src |-> Absent] >>,
     !.review_blocks =
        << [span_reviewer |-> Tag(<<"a">>), span_date |-> Absent,
            span_review_date |-> Tag(<<"9">>), aria_star_rating |-> Tag(4),
            p |-> Tag(<<"b", " ">>), text |-> <<"a", "b">>],
           [span_reviewer |-> Tag(<<"a">>), span_date |-> Tag(<<"5">>),
            span_review_date |-> Absent, aria_star_rating |-> Absent,
            p |-> Tag(<<"b">>), text |-> <<"a", "b">>] >>,
     !.p_body_text = Tag(<<"a", " ", "b">>)]

\* yp_parser.py: approx_results_per_page
ApproxResultsPerPage == 30

\* the listing blocks of the enumerated pages
FragmentKinds == {GoodA, GoodB, BlankName, NoName, Malformed, NoHref}

\* a full result page: one well-formed listing per slot
FullPage ==
  [i \in 1..ApproxResultsPerPage |->
     [GoodA EXCEPT !.div_phones = Tag(<<ToString(i)>>)]]

MixedPage == <<GoodA, BlankName, Malformed, GoodB, NoName, NoHref, Rich>>

\* the pages of a stub server for one search
CorePages ==
  {Html(<<>>), Html(<<GoodB>>), Html(MixedPage), Html(FullPage), RejectedMarkup}

\* every page of at most MaxFrags listing blocks
EnumPages ==
  UNION {{Html(s) : s \in [1..n -> FragmentKinds]} : n \in 0..MaxFrags}

\* the pages of a stub server for a run over several pairs
RunPages == {Html(<<>>), Html(<<GoodA, NoName, GoodB>>), RejectedMarkup}

\* --------------------------------------------------------------- the state

VARIABLES
  input_cfg,            \* run_scraper: keywords, locations, max_results_per_keyword
  settings,             \* max_pages_per_search, retry_attempts,
                        \* retry_backoff_seconds (in tenths of a second)
  site,                 \* the pages the server may answer a 200 with
  estimate_call,        \* a call of _estimate_total_pages by itself
  pc,                   \* where the run is
  ki, li,               \* run_scraper: position of the two nested loops
  out,                  \* run_scraper: all_records
  page,                 \* fetch_businesses: the loop variable
  all_records,          \* fetch_businesses: all_records
  first_page_estimated, \* fetch_businesses
  total_pages,          \* fetch_businesses
  attempt,              \* _get_with_retries: the loop variable
  response,             \* what _get_with_retries returned
  getLog,               \* history: the outcomes of the GETs of this call
  sleeps,               \* history: the sleeps of this call: the attempt each
                        \* came after and its length in tenths of a second
  requested,            \* history: the pages this search has requested
  pageLog,              \* history: what each requested page came to
  gets,                 \* history: the GETs of this search
  estimates,            \* history: the page budgets this search has computed
  pairLog               \* history: what each pair came to

vars ==
  <<input_cfg, settings, site, estimate_call, pc, ki, li, out, page, all_records,
    first_page_estimated, total_pages, attempt, response, getLog, sleeps,
    requested, pageLog, gets, estimates, pairLog>>

cfgVars == <<input_cfg, settings, site, estimate_call>>
runVars == <<ki, li, out, pairLog>>
fetchVars == <<page, all_records, first_page_estimated, total_pages, estimates>>
retryVars == <<attempt, response, getLog, sleeps>>

max_results == input_cfg.max_results_per_keyword
max_pages_per_search == settings.max_pages_per_search
retry_attempts == settings.retry_attempts
retry_backoff_seconds == settings.retry_backoff_seconds

\* settings.get("retry_backoff_seconds", 1.5), in tenths of a second
DefaultBackoff == 15

\* random.uniform(0, 0.5): its largest value, in tenths of a second
MaxJitter == 5

\* the jitters explored: the two ends of random.uniform(0, 0.5)
Jitters == {0, MaxJitter}

\* the outcomes of requests.get: a response with its status, or an exception
Outcomes == {<<"status", 200>>, <<"status", 500>>, <<"RequestException">>}

\* response.status_code == 200
IsSuccess(outcome) == outcome[1] = "status" /\ outcome[2] = 200

Response(html) == <<"response", html>>

\* max_results_per_keyword: small ones, and one more than a page holds
MaxResultsChoices == (0..MaxSmallResults) \cup {ApproxResultsPerPage + 1}

\* one search against a server with few pages
InitSearch ==
  /\ input_cfg \in [keywords : {<<1>>}, locations : {<<1>>},
                    max_results_per_keyword : MaxResultsChoices]
  /\ settings \in [max_pages_per_search : 1..MaxPages,
                   retry_attempts : 1..MaxRetry,
                   retry_backoff_seconds : {DefaultBackoff}]
  /\ site = CorePages

\* one search of one page, over every small page
InitPage ==
  /\ input_cfg \in [keywords : {<<1>>}, locations : {<<1>>},
                    max_results_per_keyword : 1..MaxSmallResults]
  /\ settings = [max_pages_per_search |-> 1, retry_attempts |-> 1,
                 retry_backoff_seconds |-> DefaultBackoff]
  /\ site = EnumPages

\* a run over several keywords and locations
InitRun ==
  /\ input_cfg \in [keywords : {[i \in 1..n |-> i] : n \in 1..MaxKeywords},
                    locations : {<<1>>, <<1, 2>>},
                    max_results_per_keyword : 1..MaxSmallResults]
  /\ settings = [max_pages_per_search |-> 1, retry_attempts |-> 1,
                 retry_backoff_seconds |-> DefaultBackoff]
  /\ site = RunPages

\* one search of one page that may be retried often, with or without backoff
InitRetry ==
  /\ input_cfg = [keywords |-> <<1>>, locations |-> <<1>>,
                  max_results_per_keyword |-> 1]
  /\ settings \in [max_pages_per_search : {1},
                   retry_attempts : 1..MaxRetryOnePage,
                   retry_backoff_seconds : {0, DefaultBackoff}]
  /\ site = {Html(<<GoodA>>)}

\* no call of _estimate_total_pages by itself
NoEstimateCall ==
  [first_page_records |-> 0, max_results |-> 0, max_pages_per_search |-> 0,
   returned |-> FALSE, result |-> 0]

Init ==
  /\ (InitSearch \/ InitPage \/ InitRun \/ InitRetry)
  /\ estimate_call = NoEstimateCall
  /\ pc = "run_loop"
  /\ ki = 1 /\ li = 1
  /\ out = <<>>
  /\ page = 0
  /\ all_records = <<>>
  /\ first_page_estimated = FALSE
  /\ total_pages = 0
  /\ attempt = 0
  /\ response = PyNone
  /\ getLog = <<>>
  /\ sleeps = <<>>
  /\ requested = <<>>
  /\ pageLog = <<>>
  /\ gets = 0
  /\ estimates = <<>>
  /\ pairLog = <<>>

\* ------------------------------------------------------ pagination helpers

Max(a, b) == IF a >= b THEN a ELSE b
Min(a, b) == IF a <= b THEN a ELSE b

\* mutant: the quotient is rounded down
CeilDivFloor(a, b) == a \div b

\* math.ceil(a / b) for b > 0
CeilDiv(a, b) == -((-a) \div b)

\* _estimate_total_pages(first_page_records, max_results, max_pages_per_search)
_estimate_total_pages(first_page_records, maxResults, maxPages) ==
  IF first_page_records <= 0 THEN 1
  ELSE LET pages_for_max ==
             CeilDiv(maxResults, Max(first_page_records, ApproxResultsPerPage))
       IN Min(maxPages, Max(1, pages_for_max))

\* mutant: the page loop runs one page too many
PageInRangeOffByOne(p, maxPages) == p \in 1..(maxPages + 1)

\* the for loop of fetch_businesses has a next page
PageInRange(p, maxPages) == p \in 1..maxPages

\* if len(all_records) >= max_results: break
ReachedMax(n, maxResults) == n >= maxResults

\* mutant: the budget is estimated again on every fetched page
EstimatesEveryPage(p, estimated) == p >= 1

\* if page == 1 and not first_page_estimated
EstimatesNow(p, estimated) == p = 1 /\ ~estimated

\* mutant: an empty page does not stop the search
EmptyPageGoesOn(page_records) == Len(page_records) < 0

\* if len(page_records) == 0: break
EmptyPageStops(page_records) == Len(page_records) = 0

\* if page >= total_pages: break
BudgetStops(p, totalPages) == p >= totalPages

\* mutant: the trim keeps one record too many
TrimOneTooMany(records, maxResults) ==
  IF Len(records) > maxResults THEN SubSeq(records, 1, maxResults + 1) ELSE records

\* all_records[:max_results] when len(all_records) > max_results
Trim(records, maxResults) ==
  IF Len(records) > maxResults THEN SubSeq(records, 1, maxResults) ELSE records

\* mutant: the retry loop runs one attempt too many
AttemptInRangeOffByOne(a, retryAttempts) == a \in 1..(retryAttempts + 1)

\* the for loop of _get_with_retries has a next attempt
AttemptInRange(a, retryAttempts) == a \in 1..retryAttempts

\* mutant: a sleep follows the last attempt too
SleepsAfterEveryAttempt(a, retryAttempts) == a <= retryAttempts

\* if attempt < retry_attempts: time.sleep(...)
SleepsAfter(a, retryAttempts) == a < retryAttempts

\* sleep_for = retry_backoff_seconds * attempt + random.uniform(0, 0.5)
sleep_for(backoff, a, jitter) == backoff * a + jitter

\* ------------------------------------------------------------- run_scraper

\* the nested for loops move to the next (keyword, location)
AdvancePair ==
  IF li < Len(input_cfg.locations)
  THEN ki' = ki /\ li' = li + 1
  ELSE ki' = ki + 1 /\ li' = 1

\* run_scraper calls fetch_businesses for the next pair, which sets up its loop
CallFetch ==
  /\ pc = "run_loop"
  /\ ki <= Len(input_cfg.keywords)
  /\ pc' = "page_loop"
  /\ page' = 1
  /\ all_records' = <<>>
  /\ first_page_estimated' = FALSE
  /\ total_pages' = max_pages_per_search
  /\ requested' = <<>>
  /\ pageLog' = <<>>
  /\ gets' = 0
  /\ estimates' = <<>>
  /\ UNCHANGED <<cfgVars, runVars, retryVars>>

\* run_scraper has gone through every pair and returns all_records
Finish ==
  /\ pc = "run_loop"
  /\ ki > Len(input_cfg.keywords)
  /\ pc' = "done"
  /\ UNCHANGED <<cfgVars, runVars, fetchVars, retryVars, requested, pageLog, gets>>

\* fetch_businesses returns: the trim, then run_scraper extends all_records
ReturnRecords ==
  /\ pc = "trim"
  /\ LET records == Trim(all_records, max_results)
     IN /\ out' = out \o records
        /\ pairLog' = Append(pairLog,
             [keyword |-> input_cfg.keywords[ki],
              location |-> input_cfg.locations[li],
              raised |-> FALSE, records |-> records])
  /\ AdvancePair
  /\ pc' = "run_loop"
  /\ UNCHANGED <<cfgVars, fetchVars, retryVars, requested, pageLog, gets>>

\* mutant: the exception of a pair ends the run
ExceptPairAborts ==
  /\ pc = "except"
  /\ pairLog' = Append(pairLog,
       [keyword |-> input_cfg.keywords[ki],
        location |-> input_cfg.locations[li],
        raised |-> TRUE, records |-> <<>>])
  /\ pc' = "done"
  /\ UNCHANGED <<cfgVars, ki, li, out, fetchVars, retryVars, requested, pageLog, gets>>

\* the except clause of run_scraper: the pair is logged and left
ExceptPair ==
  /\ pc = "except"
  /\ pairLog' = Append(pairLog,
       [keyword |-> input_cfg.keywords[ki],
        location |-> input_cfg.locations[li],
        raised |-> TRUE, records |-> <<>>])
  /\ out' = out
  /\ AdvancePair
  /\ pc' = "run_loop"
  /\ UNCHANGED <<cfgVars, fetchVars, retryVars, requested, pageLog, gets>>

\* -------------------------------------------------------- fetch_businesses

\* the head of the page loop: leave it, or build the URL and start the GETs
PageLoop ==
  /\ pc = "page_loop"
  /\ IF PageInRange(page, max_pages_per_search)
        /\ ~ReachedMax(Len(all_records), max_results)
     THEN /\ pc' = "get"
          /\ attempt' = 1
          /\ getLog' = <<>>
          /\ sleeps' = <<>>
          /\ requested' = Append(requested, page)
          /\ UNCHANGED response
     ELSE /\ pc' = "trim"
          /\ UNCHANGED <<retryVars, requested>>
  /\ UNCHANGED <<cfgVars, runVars, fetchVars, pageLog, gets>>

\* one pass of the loop of _get_with_retries: a GET, then return or sleep
Attempt ==
  /\ pc = "get"
  /\ \E outcome \in Outcomes :
       /\ getLog' = Append(getLog, outcome)
       /\ gets' = gets + 1
       /\ IF IsSuccess(outcome)
          THEN /\ \E html \in site : response' = Response(html)
               /\ pc' = "got"
               /\ UNCHANGED <<attempt, sleeps>>
          ELSE /\ IF SleepsAfter(attempt, retry_attempts)
                  THEN \E jitter \in Jitters :
                         sleeps' = Append(sleeps,
                           [after |-> attempt,
                            slept |-> sleep_for(retry_backoff_seconds, attempt, jitter)])
                  ELSE sleeps' = sleeps
               /\ IF AttemptInRange(attempt + 1, retry_attempts)
                  THEN /\ attempt' = attempt + 1
                       /\ pc' = "get"
                       /\ UNCHANGED response
                  ELSE /\ response' = PyNone
                       /\ pc' = "got"
                       /\ UNCHANGED attempt
  /\ UNCHANGED <<cfgVars, runVars, fetchVars, requested, pageLog>>

\* mutant: an exhausted page ends the search (break for continue)
SkipPageBreaks ==
  /\ response = PyNone
  /\ pageLog' = Append(pageLog,
       [page |-> page, outcome |-> "exhausted", before |-> Len(all_records),
        response |-> response, records |-> <<>>])
  /\ pc' = "trim"
  /\ UNCHANGED fetchVars

\* if response is None: continue
SkipPage ==
  /\ response = PyNone
  /\ pageLog' = Append(pageLog,
       [page |-> page, outcome |-> "exhausted", before |-> Len(all_records),
        response |-> response, records |-> <<>>])
  /\ page' = page + 1
  /\ pc' = "page_loop"
  /\ UNCHANGED <<all_records, first_page_estimated, total_pages, estimates>>

\* the rest of the loop body on a response: extract, estimate, extend, stop?
ProcessPage ==
  /\ response # PyNone
  /\ LET extracted == _extract_listings(response[2])
     IN IF Raised(extracted)
        THEN /\ pageLog' = Append(pageLog,
                  [page |-> page, outcome |-> "raised",
                   before |-> Len(all_records), response |-> response,
                   records |-> <<>>])
             /\ pc' = "except"
             /\ UNCHANGED fetchVars
        ELSE LET page_records == extracted[2]
                 estimate == EstimatesNow(page, first_page_estimated)
                 budget == IF estimate
                           THEN _estimate_total_pages(Len(page_records),
                                  max_results, max_pages_per_search)
                           ELSE total_pages
             IN /\ pageLog' = Append(pageLog,
                     [page |-> page, outcome |-> "fetched",
                      before |-> Len(all_records), response |-> response,
                      records |-> page_records])
                /\ total_pages' = budget
                /\ first_page_estimated' = (first_page_estimated \/ estimate)
                /\ estimates' = IF estimate
                                THEN Append(estimates, [page |-> page, budget |-> budget])
                                ELSE estimates
                /\ all_records' = all_records \o page_records
                /\ IF EmptyPageStops(page_records) \/ BudgetStops(page, budget)
                   THEN pc' = "trim" /\ page' = page
                   ELSE pc' = "page_loop" /\ page' = page + 1

\* fetch_businesses takes what _get_with_retries returned; the history of
\* that call ends here
HandleResponse ==
  /\ pc = "got"
  /\ (SkipPage \/ ProcessPage)
  /\ getLog' = <<>>
  /\ sleeps' = <<>>
  /\ UNCHANGED <<cfgVars, runVars, attempt, response, requested, gets>>

Next ==
  \/ CallFetch
  \/ PageLoop
  \/ Attempt
  \/ HandleResponse
  \/ ReturnRecords
  \/ ExceptPair
  \/ Finish

Spec == Init /\ [][Next]_vars

\* ---------------------------------------- _estimate_total_pages by itself

\* the arguments of a call of _estimate_total_pages
InitEstimate ==
  /\ estimate_call \in [first_page_records : 0..MaxFirstPageRecords,
                         max_results : 1..MaxEstimateResults,
                         max_pages_per_search : 1..MaxPages,
                         returned : {FALSE}, result : {0}]
  /\ input_cfg = [keywords |-> <<1>>, locations |-> <<1>>,
                  max_results_per_keyword |-> estimate_call.max_results]
  /\ settings = [max_pages_per_search |-> estimate_call.max_pages_per_search,
                 retry_attempts |-> 1,
                 retry_backoff_seconds |-> DefaultBackoff]
  /\ site = {}
  /\ pc = "estimate"
  /\ ki = 1 /\ li = 1
  /\ out = <<>>
  /\ page = 1
  /\ all_records = <<>>
  /\ first_page_estimated = FALSE
  /\ total_pages = estimate_call.max_pages_per_search
  /\ attempt = 0
  /\ response = PyNone
  /\ getLog = <<>>
  /\ sleeps = <<>>
  /\ requested = <<>>
  /\ pageLog = <<>>
  /\ gets = 0
  /\ estimates = <<>>
  /\ pairLog = <<>>

\* the call returns
CallEstimate ==
  /\ pc = "estimate"
  /\ ~estimate_call.returned
  /\ estimate_call' =
       [estimate_call EXCEPT
          !.returned = TRUE,
          !.result = _estimate_total_pages(estimate_call.first_page_records,
                       estimate_call.max_results,
                       estimate_call.max_pages_per_search)]
  /\ pc' = "returned"
  /\ UNCHANGED <<input_cfg, settings, site, runVars, fetchVars, retryVars,
                 requested, pageLog, gets>>

NextEstimate == CallEstimate

SpecEstimate == InitEstimate /\ [][NextEstimate]_vars

TypeOK ==
  /\ pc \in {"run_loop", "page_loop", "get", "got", "trim", "except", "done",
            "estimate", "returned"}
  /\ page \in 0..(max_pages_per_search + 1)
  /\ attempt \in 0..retry_attempts

\* ------------------------------------------------------------- the claims

Last(s) == s[Len(s)]

IsPrefix(s, t) == Len(s) <= Len(t) /\ s = SubSeq(t, 1, Len(s))

\* the records of the fetched pages of a log, in log order
RECURSIVE FetchedRecords(_)
FetchedRecords(log) ==
  IF log = <<>> THEN <<>>
  ELSE (IF Head(log).outcome = "fetched" THEN Head(log).records ELSE <<>>)
       \o FetchedRecords(Tail(log))

\* the search of the current pair is still under way
Searching == pc \in {"page_loop", "get", "got"}

\* a GET that came back with status 200
Ok200(outcome) == outcome = <<"status", 200>>

\* C1: _get_with_retries GETs until the first 200 or until retry_attempts
\* GETs have been made: while it runs every GET so far has failed and fewer
\* than retry_attempts were made; when it returns, a 200 is the last GET and
\* its response is returned, or exactly retry_attempts GETs failed and None is
\* returned.
C1_RetryUntilSuccessOrBudget ==
  /\ pc = "get" =>
       /\ Len(getLog) = attempt - 1
       /\ Len(getLog) < retry_attempts
       /\ \A i \in 1..Len(getLog) : ~Ok200(getLog[i])
  /\ pc = "got" =>
       /\ Len(getLog) \in 1..retry_attempts
       /\ \A i \in 1..(Len(getLog) - 1) : ~Ok200(getLog[i])
       /\ IF Ok200(Last(getLog))
          THEN response # PyNone /\ response[2] \in site
          ELSE response = PyNone /\ Len(getLog) = retry_attempts

\* C1 witness: a budget of two used up by a bad status and a transport error
C1_Witness ==
  /\ pc = "got"
  /\ retry_attempts = 2
  /\ getLog = << <<"status", 500>>, <<"RequestException">> >>
  /\ response = PyNone

\* C2: an exhausted page adds no record and does not end the search: page
\* p + 1 is requested next whenever p < max_pages_per_search and fewer than
\* max_results records are held, and the pair never raises because of it.
C2_ExhaustedPageIsSkipped ==
  /\ all_records = FetchedRecords(pageLog)
  /\ pc = "except" => Last(pageLog).outcome = "raised"
  /\ \A i \in 1..Len(pageLog) :
       pageLog[i].outcome = "exhausted"
       /\ pageLog[i].page < max_pages_per_search
       /\ pageLog[i].before < max_results
       => IF i < Len(pageLog)
          THEN pageLog[i + 1].page = pageLog[i].page + 1
          ELSE \/ pc = "page_loop" /\ page = pageLog[i].page + 1
               \/ pc \in {"get", "got"} /\ Last(requested) = pageLog[i].page + 1

\* C2 witness: page 1 exhausted, page 2 then fetched with records
C2_Witness ==
  /\ Len(pageLog) = 2
  /\ pageLog[1].outcome = "exhausted" /\ pageLog[1].page = 1
  /\ pageLog[2].outcome = "fetched" /\ pageLog[2].page = 2
  /\ pageLog[2].records # <<>>

\* C3: once page 1 was fetched and the budget estimated from it, no page
\* beyond the budget is requested in that search.
C3_NoPageBeyondBudget ==
  (first_page_estimated /\ pageLog # <<>> /\ pageLog[1].outcome = "fetched")
  => \A i \in 1..Len(requested) : requested[i] <= total_pages

\* C4: no page is requested once max_results records are held, and what
\* fetch_businesses returns has at most max_results records and is a prefix
\* of the records of the fetched pages in page order.
C4_MaxResultsCap ==
  /\ \A i \in 1..Len(pageLog) : pageLog[i].before < max_results
  /\ pc \in {"get", "got"} => Len(all_records) < max_results
  /\ (pc \in {"run_loop", "done"} /\ pairLog # <<>> /\ ~Last(pairLog).raised)
     => /\ Len(Last(pairLog).records) <= max_results
        /\ IsPrefix(Last(pairLog).records, FetchedRecords(pageLog))

\* C4 witness: a search returned max_results records out of more
C4_Witness ==
  /\ pc = "run_loop"
  /\ pairLog # <<>>
  /\ Len(pageLog) = 2
  /\ Len(FetchedRecords(pageLog)) > max_results
  /\ Len(Last(pairLog).records) = max_results

\* the records the pairs of one keyword have put into the output
RECURSIVE KeywordCount(_, _)
KeywordCount(log, keyword) ==
  IF log = <<>> THEN 0
  ELSE (IF Head(log).keyword = keyword THEN Len(Head(log).records) ELSE 0)
       + KeywordCount(Tail(log), keyword)

\* C5: for every keyword, the output holds at most max_results_per_keyword
\* records of that keyword over all locations.
C5_PerKeywordCap ==
  \A k \in Range(input_cfg.keywords) : KeywordCount(pairLog, k) <= max_results

\* the records of the pairs that returned, in log order
RECURSIVE ReturnedRecords(_)
ReturnedRecords(log) ==
  IF log = <<>> THEN <<>>
  ELSE (IF Head(log).raised THEN <<>> ELSE Head(log).records)
       \o ReturnedRecords(Tail(log))

\* C6: the pairs are gone through once each in keyword-major order, a pair
\* that raises adds nothing and stops nothing, and the output is the records
\* of the pairs that returned, in pair order, duplicates kept.
C6_PairsInOrderAndIsolated ==
  LET nl == Len(input_cfg.locations)
      nk == Len(input_cfg.keywords)
  IN /\ Len(pairLog) <= nk * nl
     /\ \A i \in 1..Len(pairLog) :
          /\ pairLog[i].keyword = input_cfg.keywords[((i - 1) \div nl) + 1]
          /\ pairLog[i].location = input_cfg.locations[((i - 1) % nl) + 1]
     /\ pc = "done" => Len(pairLog) = nk * nl
     /\ out = ReturnedRecords(pairLog)

\* C6 witness: a run that ended after a pair raised and a later pair returned
\* records the output already held
C6_Witness ==
  /\ pc = "done"
  /\ Len(pairLog) = 4
  /\ pairLog[1].records # <<>>
  /\ pairLog[2].raised
  /\ pairLog[3].records = pairLog[1].records
  /\ Len(out) = Len(pairLog[1].records) + Len(pairLog[3].records) + Len(pairLog[4].records)

\* the listing blocks whose parse returns a record with a name
Keeps(block) ==
  /\ ~block.malformed
  /\ _parse_listing(block)[2].name # PyStr(<<>>)

\* the records of the kept blocks of a page, in document order
KeptRecords(blocks) ==
  LET kept == SelectSeq(blocks, Keeps)
  IN [i \in 1..Len(kept) |-> _parse_listing(kept[i])[2]]

\* C7: the records of a fetched page are those of its listing blocks whose
\* parse did not raise and whose name is not empty, in document order; no
\* record with an empty name is in a page, in a search or in the output.
C7_OnlyNamedRecordsInOrder ==
  /\ \A i \in 1..Len(pageLog) :
       pageLog[i].outcome = "fetched"
       => pageLog[i].records = KeptRecords(pageLog[i].response[2][2])
  /\ \A i \in 1..Len(all_records) : all_records[i].name # PyStr(<<>>)
  /\ \A i \in 1..Len(out) : out[i].name # PyStr(<<>>)

\* C7 witness: a page with a nameless block, a block that throws and named
\* blocks after them was extracted
C7_Witness ==
  /\ pageLog # <<>>
  /\ Last(pageLog).outcome = "fetched"
  /\ Last(pageLog).response = Response(Html(MixedPage))
  /\ Len(Last(pageLog).records) = 4
  /\ out # <<>>

StrFields == {"name", "address", "phone", "email", "website", "generalInfo"}
ListFields == {"categories", "hours", "gallery", "ypReviews"}
DictFields == {"ratings"}

\* the record has the eleven fields, each of its declared type
FullyShaped(record) ==
  /\ DOMAIN record = StrFields \cup ListFields \cup DictFields
  /\ \A k \in StrFields : PyType(record[k]) = "str"
  /\ \A k \in ListFields : PyType(record[k]) = "list"
  /\ \A k \in DictFields : PyType(record[k]) = "dict"

\* no lookup of the block finds a link target
NoLinkTarget(block) ==
  LET website_tag == OrElse(block.a_track_visit_website, block.a_website_string)
  IN ~Found(website_tag) \/ ~Found(website_tag[2])

\* C8: every record _parse_listing returns is fully shaped, and its website
\* is the empty string when no link target is found.
C8_RecordFullyShaped ==
  \A i \in 1..Len(pageLog) :
    pageLog[i].outcome = "fetched"
    => \A j \in 1..Len(pageLog[i].response[2][2]) :
         LET block == pageLog[i].response[2][2][j]
         IN ~block.malformed
            => /\ FullyShaped(_parse_listing(block)[2])
               /\ NoLinkTarget(block)
                  => _parse_listing(block)[2].website = PyStr(<<>>)

\* C9: a fetched page without records is the last page the search requests,
\* and the search returns the records it held.
C9_EmptyPageEndsSearch ==
  \A i \in 1..Len(pageLog) :
    (pageLog[i].outcome = "fetched" /\ pageLog[i].records = <<>>)
    => /\ i = Len(pageLog)
       /\ Last(requested) = pageLog[i].page
       /\ ~Searching
       /\ pc \in {"run_loop", "done"}
          => /\ ~Last(pairLog).raised
             /\ Last(pairLog).records = FetchedRecords(pageLog)

\* C9 witness: page 2 came back empty below the page budget and the search
\* returned what page 1 had not given
C9_Witness ==
  /\ pc = "trim"
  /\ Len(pageLog) = 2
  /\ pageLog[1].outcome = "exhausted"
  /\ pageLog[2].outcome = "fetched" /\ pageLog[2].records = <<>>
  /\ page < total_pages

\* C10 (the bounds): the pages requested are 1 and then increasing, each
\* after the page before it was dealt with, at most max_pages_per_search of
\* them, with at most max_pages_per_search * retry_attempts GETs.
C10_Bounded ==
  /\ requested # <<>> => requested[1] = 1
  /\ \A i \in 1..(Len(requested) - 1) : requested[i] < requested[i + 1]
  /\ Len(requested) <= max_pages_per_search
  /\ gets <= max_pages_per_search * retry_attempts
  /\ Len(pageLog) = IF pc \in {"get", "got"} THEN Len(requested) - 1
                    ELSE Len(requested)
  /\ \A i \in 1..Len(pageLog) : pageLog[i].page = requested[i]

\* what is left of a search: the pages to go, then the attempts to go
SearchRank ==
  (max_pages_per_search + 1 - page) * (retry_attempts + 3)
  + (CASE pc = "page_loop" -> retry_attempts + 2
       [] pc = "get" -> retry_attempts + 1 - attempt
       [] OTHER -> 0)

\* C10: every search terminates: each of its steps takes it nearer its end
\* (what is left of it decreases and is never negative), and it stays within
\* the bounds: pages 1 and up in increasing order, one at a time, at most
\* max_pages_per_search pages and max_pages_per_search * retry_attempts GETs.
C10_SearchTerminates ==
  /\ []C10_Bounded
  /\ [](Searching => SearchRank >= 0)
  /\ [][(Searching /\ Searching') => SearchRank' < SearchRank]_vars

\* C10 witness: a search that used every page and every attempt
C10_Witness ==
  /\ pc = "trim"
  /\ Len(requested) = max_pages_per_search
  /\ max_pages_per_search = MaxPages
  /\ retry_attempts = MaxRetry
  /\ gets = max_pages_per_search * retry_attempts

\* C11 as claimed: a search that has requested a page and returns has
\* computed the page budget exactly once, after page 1, and that estimate is
\* its budget.
C11_EstimatedExactlyOnce ==
  (requested # <<>> /\ pc = "trim")
  => /\ Len(estimates) = 1
     /\ estimates[1].page = 1
     /\ total_pages = estimates[1].budget

\* the budget the spec's formula gives for a first page of n records, n >= 1
BudgetOfFirstPage(n) ==
  LET d == IF n > ApproxResultsPerPage THEN n ELSE ApproxResultsPerPage
      pagesForMax == CHOOSE k \in 0..max_results :
                       k * d >= max_results /\ (k - 1) * d < max_results
  IN IF pagesForMax < 1 THEN 1
     ELSE IF pagesForMax > max_pages_per_search THEN max_pages_per_search
     ELSE pagesForMax

\* C11: the page budget is computed at most once in a search, after page 1
\* and only when page 1 was fetched and extracted, never on a later page; it
\* is then the budget in force for the rest of the search, and a search whose
\* page 1 was exhausted keeps max_pages_per_search as its budget.
C11_EstimatedOnceAfterFetchedPageOne ==
  /\ Len(estimates) <= 1
  /\ \A i \in 1..Len(estimates) : estimates[i].page = 1
  /\ Len(estimates) = 1
     <=> (pageLog # <<>> /\ pageLog[1].page = 1 /\ pageLog[1].outcome = "fetched")
  /\ first_page_estimated <=> Len(estimates) = 1
  /\ (Len(estimates) = 1 /\ pageLog[1].records # <<>>)
     => estimates[1].budget = BudgetOfFirstPage(Len(pageLog[1].records))
  /\ (pc # "run_loop" \/ pairLog # <<>>)
     => total_pages = IF Len(estimates) = 1 THEN estimates[1].budget
                      ELSE max_pages_per_search

\* C11 witness: pages 1 and 2 were fetched under the one budget of page 1
C11_Witness ==
  /\ Len(pageLog) = 2
  /\ pageLog[1].outcome = "fetched" /\ pageLog[2].outcome = "fetched"
  /\ Len(estimates) = 1
  /\ total_pages = 2

\* the spec's page budget: clamp(ceil(m / max(n, 30)), 1, ceiling)
SpecBudget(n, m, ceiling) ==
  LET d == IF n > ApproxResultsPerPage THEN n ELSE ApproxResultsPerPage
      pagesForMax == CHOOSE k \in 0..m : k * d >= m /\ (k - 1) * d < m
  IN IF pagesForMax < 1 THEN 1
     ELSE IF pagesForMax > ceiling THEN ceiling
     ELSE pagesForMax

\* C12 as claimed: for every first_page_records >= 0, max_results >= 1 and
\* max_pages_per_search >= 1, _estimate_total_pages returns the spec's
\* formula, first_page_records = 0 included.
C12_EqualsFormulaEverywhere ==
  estimate_call.returned
  => estimate_call.result =
       SpecBudget(estimate_call.first_page_records, estimate_call.max_results,
                  estimate_call.max_pages_per_search)

\* C12: for max_results >= 1 and max_pages_per_search >= 1 the result of
\* _estimate_total_pages lies in 1..max_pages_per_search; it is the spec's
\* formula for every first_page_records >= 1, and 1 for first_page_records = 0.
C12_FormulaOnNonEmptyFirstPage ==
  estimate_call.returned
  => /\ estimate_call.result \in 1..estimate_call.max_pages_per_search
     /\ estimate_call.first_page_records >= 1
        => estimate_call.result =
             SpecBudget(estimate_call.first_page_records,
                        estimate_call.max_results,
                        estimate_call.max_pages_per_search)
     /\ estimate_call.first_page_records = 0 => estimate_call.result = 1

\* C12 witness: a first page of 31 records and 62 wanted make 2 pages, below
\* the ceiling, where 30 a page would make 3
C12_Witness ==
  /\ estimate_call.returned
  /\ estimate_call.first_page_records = 31
  /\ estimate_call.max_results = 62
  /\ estimate_call.max_pages_per_search = 3
  /\ estimate_call.result = 2

\* C13: in _get_with_retries a sleep follows a failed attempt k exactly when
\* k < retry_attempts, and lasts retry_backoff_seconds * k plus a jitter of
\* at most half a second: one sleep between two attempts, none before the
\* first attempt, none after a 200, none after the last attempt of a budget
\* used up (retry_attempts - 1 sleeps then).
C13_SleepBetweenAttemptsOnly ==
  /\ pc = "get" => Len(sleeps) = attempt - 1 /\ Len(sleeps) = Len(getLog)
  /\ pc = "got" => Len(sleeps) = Len(getLog) - 1
  /\ (pc = "got" /\ response = PyNone) => Len(sleeps) = retry_attempts - 1
  /\ pc \in {"get", "got"} =>
       \A i \in 1..Len(sleeps) :
         /\ sleeps[i].after = i
         /\ i < retry_attempts
         /\ ~Ok200(getLog[i])
         /\ sleeps[i].slept - retry_backoff_seconds * i \in 0..MaxJitter

\* C13 witness: a budget of three used up, with two sleeps of growing length
C13_Witness ==
  /\ pc = "got"
  /\ response = PyNone
  /\ retry_attempts = 3
  /\ retry_backoff_seconds = DefaultBackoff
  /\ Len(sleeps) = 2
  /\ sleeps[1].slept = DefaultBackoff
  /\ sleeps[2].slept = 2 * DefaultBackoff + MaxJitter

====
